---------------------------- MODULE Spec2Model ----------------------------
(***************************************************************************)
(* A model of src/main.py, the YouTube video summarizer: the transcript     *)
(* resolver and its Whisper fallback, summarize_text (direct and chunked    *)
(* mode), the word wrap both summarize_text and save_pdf rely on, the PDF   *)
(* pagination loop, and the temporary paths of concurrent runs.             *)
(*                                                                         *)
(* Texts are sequences of one-character strings.  The alphabet has one      *)
(* letter, the hyphen and two whitespace characters, which is what the      *)
(* wrap's word-splitting rule distinguishes; tabs are left out.             *)
(***************************************************************************)
EXTENDS Integers, Sequences, FiniteSets

\* ------------------------------------------------------------------ bounds
\* Longest text handed to the wrap on its own.
MaxTextLen == 6
\* Largest chunk_size tried.
MaxWidth == 3
\* Longest transcript handed to summarize_text.
MaxTranscriptLen == 5
\* Most one-word lines put before the special line of a report.
MaxFill == 93
\* Most one-word lines put after it.
MaxTail == 1

\* ------------------------------------------------------------------- texts
Letters == {"a"}
Whitespace == {" ", "\n"}
Alphabet == Letters \cup {"-"} \cup Whitespace

RECURSIVE TextsUpTo(_)
TextsUpTo(n) ==
    IF n = 0 THEN {<<>>}
    ELSE LET shorter == TextsUpTo(n - 1)
         IN shorter \cup {Append(t, c) : t \in {s \in shorter : Len(s) = n - 1}, c \in Alphabet}

\* The character at 1-based position i, "" outside the text.
At(t, i) == IF i \in 1..Len(t) THEN t[i] ELSE ""

IsLetter(t, i) == At(t, i) \in Letters
IsHyphen(t, i) == At(t, i) = "-"
IsSpace(t, i) == At(t, i) \in Whitespace

\* str.strip() == '': the text holds whitespace only.
IsBlank(t) == \A i \in 1..Len(t) : t[i] \in Whitespace

RECURSIVE Concat(_)
Concat(ss) == IF ss = <<>> THEN <<>> ELSE Head(ss) \o Concat(Tail(ss))

RECURSIVE JoinWith(_, _)
JoinWith(ss, sep) ==
    IF ss = <<>> THEN <<>>
    ELSE IF Len(ss) = 1 THEN ss[1]
    ELSE ss[1] \o <<sep>> \o JoinWith(Tail(ss), sep)

RECURSIVE SumLen(_)
SumLen(ss) == IF ss = <<>> THEN 0 ELSE Len(Head(ss)) + SumLen(Tail(ss))

\* ------------------------------------------- textwrap.wrap (TextWrapper)
\* _munge_whitespace with replace_whitespace: every whitespace character
\* becomes a space.
MungeWhitespace(t) == [i \in 1..Len(t) |-> IF t[i] \in Whitespace THEN " " ELSE t[i]]

\* The least of a non-empty set of positions.
Least(S) == CHOOSE p \in S : \A q \in S : p <= q

\* The number of consecutive hyphens starting at position i.
HyphenRun(t, i) == Least({j \in i..(Len(t) + 1) : ~IsHyphen(t, j)}) - i

\* (?<=wp) -{2,} (?=\w) read at position i: an em-dash between words.
EmDashAt(t, i) ==
    /\ IsLetter(t, i - 1)
    /\ HyphenRun(t, i) >= 2
    /\ IsLetter(t, i + HyphenRun(t, i))

\* The hyphen at position j ends a piece of a hyphenated word:
\* -(?: (?<=lt{2}-) | (?<=lt-lt-)) (?= lt -? lt)
HyphenBreakAt(t, j) ==
    /\ IsHyphen(t, j)
    /\ \/ IsLetter(t, j - 2) /\ IsLetter(t, j - 1)
       \/ IsLetter(t, j - 3) /\ IsHyphen(t, j - 2) /\ IsLetter(t, j - 1)
    /\ IsLetter(t, j + 1)
    /\ \/ IsLetter(t, j + 2)
       \/ IsHyphen(t, j + 2) /\ IsLetter(t, j + 3)

\* The lazy word match of wordsep_re that has consumed the characters up to
\* j - 1: the first position past the match.
WordEnd(t, j) ==
    LET stop == Least({k \in j..(Len(t) + 1) :
                          \/ HyphenBreakAt(t, k)
                          \/ k > Len(t)
                          \/ IsSpace(t, k)
                          \/ EmDashAt(t, k)})
    IN IF HyphenBreakAt(t, stop) THEN stop + 1 ELSE stop

\* The first position past the whitespace run at position j.
SpaceEnd(t, j) == Least({k \in j..(Len(t) + 1) : ~IsSpace(t, k)})

\* One match of wordsep_re at position p: the first position past it.
MatchEnd(t, p) ==
    IF IsSpace(t, p) THEN SpaceEnd(t, p)
    ELSE IF EmDashAt(t, p) THEN p + HyphenRun(t, p)
    ELSE WordEnd(t, p + 1)

\* TextWrapper._split with break_on_hyphens: the text cut into whitespace
\* runs, words, pieces of hyphenated words and em-dashes.
RECURSIVE SplitFrom(_, _)
SplitFrom(t, p) ==
    IF p > Len(t) THEN <<>>
    ELSE <<SubSeq(t, p, MatchEnd(t, p) - 1)>> \o SplitFrom(t, MatchEnd(t, p))

Split(t) == SplitFrom(t, 1)

\* The longest prefix of the pieces that fits in the width left.
RECURSIVE FitCountLoose(_, _)
FitCountLoose(cs, room) ==
    IF cs = <<>> \/ Len(Head(cs)) > room + 1 THEN 0
    ELSE 1 + FitCountLoose(Tail(cs), room - Len(Head(cs)))

RECURSIVE FitCount(_, _)
FitCount(cs, room) ==
    IF cs = <<>> \/ Len(Head(cs)) > room THEN 0
    ELSE 1 + FitCount(Tail(cs), room - Len(Head(cs)))

\* chunk.rfind('-', 0, space_left): the 0-based index of the last hyphen
\* among the first space_left characters, -1 when there is none.
RFindHyphen(c, space_left) ==
    LET hs == {h \in 0..(space_left - 1) : IsHyphen(c, h + 1)}
    IN IF hs = {} THEN -1 ELSE CHOOSE h \in hs : \A g \in hs : g <= h

\* _handle_long_word with break_long_words: where the too-long piece is cut.
LongWordCut(c, space_left) ==
    LET hyphen == RFindHyphen(c, space_left)
    IN IF Len(c) > space_left /\ hyphen > 0 /\ \E i \in 1..hyphen : c[i] # "-"
       THEN hyphen + 1
       ELSE space_left

\* _wrap_chunks: one pass of the outer loop per line.
RECURSIVE WrapChunks(_, _, _, _)
WrapChunks(pieces, lines, width, break_long_words) ==
    IF pieces = <<>> THEN lines
    ELSE
      LET cs == IF IsBlank(Head(pieces)) /\ lines # <<>> THEN Tail(pieces) ELSE pieces
          k == FitCount(cs, width)
          fitted == SubSeq(cs, 1, k)
          rest == SubSeq(cs, k + 1, Len(cs))
          too_long == rest # <<>> /\ Len(Head(rest)) > width
          cut == LongWordCut(Head(rest), width - SumLen(fitted))
          cur_line ==
              IF too_long /\ break_long_words
              THEN Append(fitted, SubSeq(Head(rest), 1, cut))
              ELSE IF too_long /\ fitted = <<>> THEN <<Head(rest)>>
              ELSE fitted
          left ==
              IF too_long /\ break_long_words
              THEN <<SubSeq(Head(rest), cut + 1, Len(Head(rest)))>> \o Tail(rest)
              ELSE IF too_long /\ fitted = <<>> THEN Tail(rest)
              ELSE rest
          kept ==
              IF cur_line # <<>> /\ IsBlank(cur_line[Len(cur_line)])
              THEN SubSeq(cur_line, 1, Len(cur_line) - 1)
              ELSE cur_line
      IN WrapChunks(left, IF kept # <<>> THEN Append(lines, Concat(kept)) ELSE lines,
                    width, break_long_words)

\* textwrap.wrap(text, width, break_long_words=...), for width > 0.
Wrap(t, width, break_long_words) ==
    WrapChunks(Split(MungeWhitespace(t)), <<>>, width, break_long_words)

\* textwrap.wrap(text, width=chunk_size, break_long_words=False)
ChunkText(t, width) == Wrap(t, width, FALSE)

\* The words of a text: its maximal runs of non-whitespace characters.
RECURSIVE WordsFrom(_, _, _)
WordsFrom(t, p, cur) ==
    IF p > Len(t) THEN (IF cur = <<>> THEN <<>> ELSE <<cur>>)
    ELSE IF t[p] \in Whitespace
         THEN (IF cur = <<>> THEN <<>> ELSE <<cur>>) \o WordsFrom(t, p + 1, <<>>)
         ELSE WordsFrom(t, p + 1, Append(cur, t[p]))

Words(t) == WordsFrom(t, 1, <<>>)

\* str.strip()
RECURSIVE LStrip(_)
LStrip(t) == IF t # <<>> /\ Head(t) \in Whitespace THEN LStrip(Tail(t)) ELSE t

RECURSIVE RStrip(_)
RStrip(t) ==
    IF t # <<>> /\ t[Len(t)] \in Whitespace THEN RStrip(SubSeq(t, 1, Len(t) - 1)) ELSE t

Strip(t) == RStrip(LStrip(t))

\* ---------------------------------------------------------- summarize_text
\* What model.generate_content can do with a prompt: return a response whose
\* text is one of GenTexts, or raise an exception whose message is one of
\* GenErrors.
GenTexts == {<<"a">>, <<" ", "a", "-", "\n">>}
GenErrors == {<<"-">>}
Replies == [ok : {TRUE}, text : GenTexts] \cup [ok : {FALSE}, text : GenErrors]

\* The literals of summarize_text.  The two error prefixes start with a cross
\* mark in the source, left out here: the module is ASCII.
ReportHeader == "### Video Summary Report\n\n"
DirectErrorPrefix == "Error generating summary: "
CombineErrorPrefix == "Error combining summaries: "
ChunkPlaceholder == "Error summarizing this chunk."

\* A prompt: which of the three templates it is, and the text put into it.
Prompt(template, content) == [template |-> template, content |-> content]

DirectReturnBare(reply) == <<ReportHeader>> \o Strip(reply.text)

\* What the try/except around the direct call returns.
DirectReturn(reply) ==
    IF reply.ok THEN <<ReportHeader>> \o Strip(reply.text)
    ELSE <<DirectErrorPrefix>> \o reply.text

ChunkSummaryDropped(reply) == IF reply.ok THEN Strip(reply.text) ELSE <<>>

\* What the try/except around one chunk's call appends to chunk_summaries.
ChunkSummary(reply) == IF reply.ok THEN Strip(reply.text) ELSE <<ChunkPlaceholder>>

\* combined_notes = "\n".join(chunk_summaries)
CombinedNotes(summaries) == JoinWith(summaries, "\n")

\* What the try/except around the combination call returns.
CombineReturn(reply) ==
    IF reply.ok THEN <<ReportHeader>> \o Strip(reply.text)
    ELSE <<CombineErrorPrefix>> \o reply.text

\* The test that picks the mode: len(text) <= chunk_size.
DirectModeStrict(t, width) == Len(t) < width

DirectMode(t, width) == Len(t) <= width

\* The chunk the loop is at, given the summaries appended so far.
NextChunkReversed(cs, summaries) == cs[Len(cs) - Len(summaries)]

NextChunk(cs, summaries) == cs[Len(summaries) + 1]

VARIABLES
    text,             \* summarize_text's text argument
    chunk_size,       \* its chunk_size argument
    chunks,           \* textwrap.wrap's result
    chunk_summaries,  \* the list the chunk loop appends to
    requests,         \* the prompts handed to model.generate_content, in order
    replies,          \* what each of those calls did
    result,           \* the returned text
    pc                \* where the call is

sumVars == <<text, chunk_size, chunks, chunk_summaries, requests, replies, result, pc>>

VARIABLES
    title,            \* save_pdf's title argument
    summary_text,     \* its summary_text argument
    lines,            \* summary_text.split('\n')
    line_no,          \* how many of those lines the outer loop has taken
    wrapped_lines,    \* textwrap.wrap of the line the outer loop is at
    wline_no,         \* how many of those the inner loop has drawn
    y,                \* the vertical cursor
    page,             \* the page the canvas is on
    drawn,            \* the drawString calls so far: font, page, y, text
    pdf_pc            \* where save_pdf is

pdfVars == <<title, summary_text, lines, line_no, wrapped_lines, wline_no, y, page, drawn,
             pdf_pc>>

VARIABLES
    run_pc,           \* where each run of the script is
    video_url,        \* the text input's value
    video_id,         \* extract_video_id's result
    provided,         \* what the transcript provider did for get_transcript
    fetched,          \* what get_transcript returned
    transcript,       \* the transcript the run goes on with
    metadata,         \* the run's metadata dict
    summary,          \* summarize_text's result
    invoked,          \* the helper functions the run has called, in order
    temp_dirs,        \* how many directories tempfile.mkdtemp has made
    file_writers,     \* for each path written, the runs that wrote it
    file_content,     \* for each path written, what it holds
    offered           \* what the run's download button was given

pipeVars == <<run_pc, video_url, video_id, provided, fetched, transcript, metadata, summary,
              invoked, temp_dirs, file_writers, file_content, offered>>

vars == <<sumVars, pdfVars, pipeVars>>

Runs == {1, 2}

\* Python's None.
None == "None"

NoFiles == [path \in {} |-> {}]

PipeIdle ==
    /\ run_pc = [r \in Runs |-> "idle"]
    /\ video_url = [r \in Runs |-> None]
    /\ video_id = [r \in Runs |-> None]
    /\ provided = [r \in Runs |-> None]
    /\ fetched = [r \in Runs |-> None]
    /\ transcript = [r \in Runs |-> None]
    /\ metadata = [r \in Runs |-> None]
    /\ summary = [r \in Runs |-> None]
    /\ invoked = [r \in Runs |-> <<>>]
    /\ temp_dirs = 0
    /\ file_writers = NoFiles
    /\ file_content = NoFiles
    /\ offered = [r \in Runs |-> None]

SummarizeIdle ==
    /\ text = <<>>
    /\ chunk_size = 0
    /\ chunks = <<>>
    /\ chunk_summaries = <<>>
    /\ requests = <<>>
    /\ replies = <<>>
    /\ result = <<>>
    /\ pc = "idle"

PdfIdle ==
    /\ title = <<>>
    /\ summary_text = <<>>
    /\ lines = <<>>
    /\ line_no = 0
    /\ wrapped_lines = <<>>
    /\ wline_no = 0
    /\ y = 0
    /\ page = 0
    /\ drawn = <<>>
    /\ pdf_pc = "idle"

NoResult == <<>>

\* ------------------------------------------------------------ the wrap alone
WrapInit ==
    /\ text \in TextsUpTo(MaxTextLen)
    /\ chunk_size \in 1..MaxWidth
    /\ Len(text) > chunk_size
    /\ chunks = <<>>
    /\ chunk_summaries = <<>>
    /\ requests = <<>>
    /\ replies = <<>>
    /\ result = NoResult
    /\ pc = "wrap"
    /\ PdfIdle
    /\ PipeIdle

WrapText ==
    /\ pc = "wrap"
    /\ chunks' = ChunkText(text, chunk_size)
    /\ pc' = "wrapped"
    /\ UNCHANGED <<text, chunk_size, chunk_summaries, requests, replies, result, pdfVars, pipeVars>>

WrapNext == WrapText

WrapSpec == WrapInit /\ [][WrapNext]_vars

\* ------------------------------------------------------- summarize_text runs
SummarizeInit ==
    /\ text \in TextsUpTo(MaxTranscriptLen)
    /\ chunk_size \in 0..MaxWidth
    /\ chunks = <<>>
    /\ chunk_summaries = <<>>
    /\ requests = <<>>
    /\ replies = <<>>
    /\ result = NoResult
    /\ pc = "call"
    /\ PdfIdle
    /\ PipeIdle

\* len(text) <= chunk_size: the one direct request and its return.
DirectSummarize ==
    /\ pc = "call"
    /\ DirectMode(text, chunk_size)
    /\ \E reply \in Replies :
        /\ requests' = Append(requests, Prompt("direct", text))
        /\ replies' = Append(replies, reply)
        /\ result' = DirectReturn(reply)
    /\ pc' = "returned"
    /\ UNCHANGED <<text, chunk_size, chunks, chunk_summaries, pdfVars, pipeVars>>

\* The else branch up to the loop: textwrap.wrap cuts the text into chunks.
StartChunked ==
    /\ pc = "call"
    /\ ~DirectMode(text, chunk_size)
    /\ chunk_size > 0
    /\ chunks' = ChunkText(text, chunk_size)
    /\ pc' = "chunks"
    /\ UNCHANGED <<text, chunk_size, chunk_summaries, requests, replies, result, pdfVars, pipeVars>>

\* The else branch with a width that is not positive: textwrap.wrap raises
\* ValueError, which nothing in summarize_text catches.
InvalidWidth ==
    /\ pc = "call"
    /\ ~DirectMode(text, chunk_size)
    /\ chunk_size <= 0
    /\ pc' = "raised"
    /\ UNCHANGED <<text, chunk_size, chunks, chunk_summaries, requests, replies, result, pdfVars, pipeVars>>

\* One pass of the loop over the chunks.
SummarizeChunk ==
    /\ pc = "chunks"
    /\ Len(chunk_summaries) < Len(chunks)
    /\ \E reply \in Replies :
        /\ requests' = Append(requests, Prompt("chunk", NextChunk(chunks, chunk_summaries)))
        /\ replies' = Append(replies, reply)
        /\ chunk_summaries' = Append(chunk_summaries, ChunkSummary(reply))
    /\ UNCHANGED <<text, chunk_size, chunks, result, pc, pdfVars, pipeVars>>

\* After the loop: the combination request and the return.
CombineSummaries ==
    /\ pc = "chunks"
    /\ Len(chunk_summaries) = Len(chunks)
    /\ \E reply \in Replies :
        /\ requests' = Append(requests, Prompt("combine", CombinedNotes(chunk_summaries)))
        /\ replies' = Append(replies, reply)
        /\ result' = CombineReturn(reply)
    /\ pc' = "returned"
    /\ UNCHANGED <<text, chunk_size, chunks, chunk_summaries, pdfVars, pipeVars>>

SummarizeNext ==
    \/ DirectSummarize
    \/ StartChunked
    \/ InvalidWidth
    \/ SummarizeChunk
    \/ CombineSummaries

SummarizeSpec == SummarizeInit /\ [][SummarizeNext]_vars

\* ---------------------------------------------------------------- save_pdf
\* reportlab's letter page is 612 by 792 points.
PageHeight == 792
\* The x of every drawString, and the cursor's lower limit.
Margin == 50
\* The title's distance from the top of the page, and the cursor's after a
\* new page.
TopOffset == 50
\* The first body line's distance from the top of page one.
BodyOffset == 70
LineHeight == 15
WrapWidth == 100

\* str.split('\n'): the text between the newlines; one line at least.
RECURSIVE SplitLinesFrom(_, _)
SplitLinesFrom(t, p) ==
    LET stop == Least({k \in p..(Len(t) + 1) : k > Len(t) \/ t[k] = "\n"})
    IN IF stop > Len(t) THEN <<SubSeq(t, p, Len(t))>>
       ELSE <<SubSeq(t, p, stop - 1)>> \o SplitLinesFrom(t, stop + 1)

SplitLines(t) == SplitLinesFrom(t, 1)

WrapLineFirstOnly(line) ==
    IF Wrap(line, WrapWidth, TRUE) = <<>> THEN <<>> ELSE <<Head(Wrap(line, WrapWidth, TRUE))>>

\* textwrap.wrap(line, 100)
WrapLine(line) == Wrap(line, WrapWidth, TRUE)

\* if y < 50: the cursor has left the page.
BelowMarginLate(cursor) == cursor < 0

BelowMargin(cursor) == cursor < Margin

\* The inner loop's body after drawString: y -= 15, then a new page with the
\* cursor back at the top when y has fallen below the margin.
NextCursor(cursor) ==
    IF BelowMargin(cursor - LineHeight) THEN PageHeight - TopOffset ELSE cursor - LineHeight

NextPage(cursor, p) == IF BelowMargin(cursor - LineHeight) THEN p + 1 ELSE p

\* The reports drawn: MaxFill one-word lines at most, then one special line,
\* then, MaxTail times at most, a blank line and a one-word line.
Rep(c, n) == [i \in 1..n |-> c]

Repeat(t, n) == [i \in 1..(n * Len(t)) |-> t[((i - 1) % Len(t)) + 1]]

SpecialLines ==
    { <<>>,
      <<" ">>,
      Rep("a", WrapWidth + 1),
      Rep("a", 60) \o <<" ">> \o Rep("a", 60),
      Rep("a", WrapWidth - 2) \o <<"-", "a", "a", "a">>,
      <<"a", " ", " ", "a">> }

Reports ==
    { Repeat(<<"a", "\n">>, before) \o special \o Repeat(<<"\n", "\n", "-">>, after) :
        before \in 0..MaxFill, special \in SpecialLines, after \in 0..MaxTail }

Titles == {<<"a", " ", "a">>}

PdfInit ==
    /\ title \in Titles
    /\ summary_text \in Reports
    /\ lines = <<>>
    /\ line_no = 0
    /\ wrapped_lines = <<>>
    /\ wline_no = 0
    /\ y = 0
    /\ page = 0
    /\ drawn = <<>>
    /\ pdf_pc = "call"
    /\ SummarizeIdle
    /\ PipeIdle

Drawing(font, p, cursor, t) == [font |-> font, page |-> p, y |-> cursor, text |-> t]

\* The canvas is made, the title drawn, the cursor set, the text split.
StartPdf ==
    /\ pdf_pc = "call"
    /\ page' = 1
    /\ drawn' = <<Drawing("Helvetica-Bold", 1, PageHeight - TopOffset, title)>>
    /\ y' = PageHeight - BodyOffset
    /\ lines' = SplitLines(summary_text)
    /\ line_no' = 0
    /\ wrapped_lines' = <<>>
    /\ wline_no' = 0
    /\ pdf_pc' = "lines"
    /\ UNCHANGED <<title, summary_text, sumVars, pipeVars>>

\* The outer loop takes the next line and wraps it.
TakeLine ==
    /\ pdf_pc = "lines"
    /\ wline_no = Len(wrapped_lines)
    /\ line_no < Len(lines)
    /\ line_no' = line_no + 1
    /\ wrapped_lines' = WrapLine(lines[line_no + 1])
    /\ wline_no' = 0
    /\ UNCHANGED <<title, summary_text, lines, y, page, drawn, pdf_pc, sumVars, pipeVars>>

\* The inner loop draws the next wrapped line and moves the cursor.
DrawLine ==
    /\ pdf_pc = "lines"
    /\ wline_no < Len(wrapped_lines)
    /\ drawn' = Append(drawn, Drawing("Helvetica", page, y, wrapped_lines[wline_no + 1]))
    /\ y' = NextCursor(y)
    /\ page' = NextPage(y, page)
    /\ wline_no' = wline_no + 1
    /\ UNCHANGED <<title, summary_text, lines, line_no, wrapped_lines, pdf_pc, sumVars, pipeVars>>

\* Both loops are over: c.save().
SavePdf ==
    /\ pdf_pc = "lines"
    /\ wline_no = Len(wrapped_lines)
    /\ line_no = Len(lines)
    /\ pdf_pc' = "saved"
    /\ UNCHANGED <<title, summary_text, lines, line_no, wrapped_lines, wline_no, y, page,
                   drawn, sumVars, pipeVars>>

PdfNext ==
    \/ StartPdf
    \/ TakeLine
    \/ DrawLine
    \/ SavePdf

PdfSpec == PdfInit /\ [][PdfNext]_vars

\* ------------------------------------------------------ the Streamlit script
\* summarize_text's default chunk_size.
DefaultChunkSize == 2000
\* The description is cut to its first 300 characters.
DescriptionLimit == 300

\* A URL, as far as extract_video_id reads it: whether it is the empty text,
\* whether "youtu.be" and "youtube.com" occur in it, what follows its last
\* slash, its query's v parameter (None without one), and the video it is of.
Url(empty, be, com, last, v, video) ==
    [empty |-> empty, youtu_be |-> be, youtube_com |-> com, last |-> last, v |-> v,
     video |-> video]

Urls ==
    { Url(TRUE, FALSE, FALSE, <<>>, None, None),
      Url(FALSE, TRUE, FALSE, <<"A">>, None, <<"A">>),
      Url(FALSE, FALSE, TRUE, <<"w", "?", "v", "=", "A">>, <<"A">>, <<"A">>),
      Url(FALSE, FALSE, TRUE, <<"w", "?", "v", "=", "B">>, <<"B">>, <<"B">>),
      Url(FALSE, FALSE, TRUE, <<"w">>, None, None),
      Url(FALSE, FALSE, FALSE, <<"x">>, None, None) }

\* Python's truth of a str or None.
Truthy(v) == v # None /\ v # <<>>

extract_video_id(url) ==
    IF url.youtu_be THEN url.last
    ELSE IF url.youtube_com THEN url.v
    ELSE None

\* What YouTubeTranscriptApi.get_transcript can do: return caption entries,
\* or raise.
CaptionTracks == {<<>>, <<<<"a">>, <<"-", "a">>>>}
ProviderOutcomes ==
    [kind : {"entries"}, entries : CaptionTracks]
        \cup [kind : {"TranscriptsDisabled", "NoTranscriptFound", "Exception"}, entries : {<<>>}]

get_transcript(outcome) ==
    IF outcome.kind = "entries" THEN JoinWith(outcome.entries, "\n") ELSE None

\* if transcript: the transcript fetched is used; else Whisper.
UsesFetched(t) == Truthy(t)

FetchedMetadata(id) ==
    [title |-> <<"YouTube Video ">> \o id,
     channel |-> <<"Unknown">>,
     thumbnail |-> <<"https://img.youtube.com/vi/">> \o id \o <<"/hqdefault.jpg">>,
     description |-> <<>>]

\* What yt-dlp's extract_info can return for a video: an info dict, here one
\* with a title and a description and no uploader.
Info(video) == [id |-> video, title |-> <<"a">>, description |-> <<"a", " ", "a">>]

InfoGet(info, key, default) == IF key \in DOMAIN info THEN info[key] ELSE default

\* os.path.join(temp_dir, name)
Path(dir, name) == [dir |-> dir, name |-> name]

\* os.path.join(temp_dir, f"{info['id']}.mp3"), temp_dir being mkdtemp's.
AudioPath(dir, info) == Path(dir, info.id \o <<".mp3">>)

DownloadedMetadata(info, dir) ==
    [title |-> InfoGet(info, "title", <<"Untitled Video">>),
     channel |-> InfoGet(info, "uploader", <<"Unknown">>),
     thumbnail |-> InfoGet(info, "thumbnail", None),
     description |->
         SubSeq(InfoGet(info, "description", <<>>), 1,
                IF Len(InfoGet(info, "description", <<>>)) < DescriptionLimit
                THEN Len(InfoGet(info, "description", <<>>)) ELSE DescriptionLimit),
     audio_path |-> AudioPath(dir, info)]

\* What whisper_model.transcribe can give: segments, joined with spaces.
SegmentLists == {<<>>, <<<<"a">>, <<"a", "-">>>>}
transcribe_audio(segments) == JoinWith(segments, " ")

\* pdf_path = os.path.join(tempfile.gettempdir(), f"{video_id}_summary.pdf")
PdfPath(id) == Path(<<"tmp">>, id \o <<"_summary.pdf">>)

\* A write of a file by a run.
Written(files, path, r) ==
    [q \in DOMAIN files \cup {path} |->
        IF q = path THEN (IF q \in DOMAIN files THEN files[q] ELSE {}) \cup {r} ELSE files[q]]

Holding(files, path, content) ==
    [q \in DOMAIN files \cup {path} |-> IF q = path THEN content ELSE files[q]]

PipeInit ==
    /\ run_pc = [r \in Runs |-> "clicked"]
    /\ video_url \in [Runs -> Urls]
    /\ video_id = [r \in Runs |-> None]
    /\ provided = [r \in Runs |-> None]
    /\ fetched = [r \in Runs |-> None]
    /\ transcript = [r \in Runs |-> None]
    /\ metadata = [r \in Runs |-> None]
    /\ summary = [r \in Runs |-> None]
    /\ invoked = [r \in Runs |-> <<>>]
    /\ temp_dirs = 0
    /\ file_writers = NoFiles
    /\ file_content = NoFiles
    /\ offered = [r \in Runs |-> None]
    /\ SummarizeIdle
    /\ PdfIdle

\* The button is pressed: the URL is tested and the video id extracted.
SubmitUrl(r) ==
    /\ run_pc[r] = "clicked"
    /\ IF video_url[r].empty
       THEN /\ run_pc' = [run_pc EXCEPT ![r] = "no_url"]
            /\ UNCHANGED <<video_id, invoked>>
       ELSE /\ video_id' = [video_id EXCEPT ![r] = extract_video_id(video_url[r])]
            /\ invoked' = [invoked EXCEPT ![r] = Append(@, "extract_video_id")]
            /\ run_pc' = [run_pc EXCEPT ![r] =
                             IF Truthy(extract_video_id(video_url[r])) THEN "resolve" ELSE "no_id"]
    /\ UNCHANGED <<video_url, provided, fetched, transcript, metadata, summary, temp_dirs,
                   file_writers, file_content, offered, sumVars, pdfVars>>

\* get_transcript and the branch on its result.
ResolveTranscript(r) ==
    /\ run_pc[r] = "resolve"
    /\ \E outcome \in ProviderOutcomes :
        /\ provided' = [provided EXCEPT ![r] = outcome]
        /\ fetched' = [fetched EXCEPT ![r] = get_transcript(outcome)]
        /\ invoked' = [invoked EXCEPT ![r] = Append(@, "get_transcript")]
        /\ IF UsesFetched(get_transcript(outcome))
           THEN /\ transcript' = [transcript EXCEPT ![r] = get_transcript(outcome)]
                /\ metadata' = [metadata EXCEPT ![r] = FetchedMetadata(video_id[r])]
                /\ run_pc' = [run_pc EXCEPT ![r] = "summarize"]
           ELSE /\ run_pc' = [run_pc EXCEPT ![r] = "download"]
                /\ UNCHANGED <<transcript, metadata>>
    /\ UNCHANGED <<video_url, video_id, summary, temp_dirs, file_writers, file_content,
                   offered, sumVars, pdfVars>>

\* download_audio_and_metadata: a directory of mkdtemp's, then yt-dlp, which
\* writes the audio there or raises.
DownloadAudio(r) ==
    /\ run_pc[r] = "download"
    /\ temp_dirs' = temp_dirs + 1
    /\ invoked' = [invoked EXCEPT ![r] = Append(@, "download_audio_and_metadata")]
    /\ \E downloaded \in BOOLEAN :
        IF downloaded
        THEN LET dir == <<"tmp", "mkdtemp", temp_dirs + 1>>
                 info == Info(video_url[r].video)
             IN /\ file_writers' = Written(file_writers, AudioPath(dir, info), r)
                /\ file_content' = Holding(file_content, AudioPath(dir, info), <<"audio", info.id>>)
                /\ metadata' = [metadata EXCEPT ![r] = DownloadedMetadata(info, dir)]
                /\ run_pc' = [run_pc EXCEPT ![r] = "transcribe"]
        ELSE /\ run_pc' = [run_pc EXCEPT ![r] = "raised"]
             /\ UNCHANGED <<file_writers, file_content, metadata>>
    /\ UNCHANGED <<video_url, video_id, provided, fetched, transcript, summary, offered,
                   sumVars, pdfVars>>

\* transcribe_audio on the downloaded file.
Transcribe(r) ==
    /\ run_pc[r] = "transcribe"
    /\ invoked' = [invoked EXCEPT ![r] = Append(@, "transcribe_audio")]
    /\ \/ \E segments \in SegmentLists :
            /\ transcript' = [transcript EXCEPT ![r] = transcribe_audio(segments)]
            /\ run_pc' = [run_pc EXCEPT ![r] = "summarize"]
       \/ /\ run_pc' = [run_pc EXCEPT ![r] = "raised"]
          /\ UNCHANGED transcript
    /\ UNCHANGED <<video_url, video_id, provided, fetched, metadata, summary, temp_dirs,
                   file_writers, file_content, offered, sumVars, pdfVars>>

\* summarize_text(transcript), with the default chunk_size: the transcripts
\* here are shorter than it, so this is the direct request.
SummarizeTranscript(r) ==
    /\ run_pc[r] = "summarize"
    /\ DirectMode(transcript[r], DefaultChunkSize)
    /\ invoked' = [invoked EXCEPT ![r] = Append(@, "summarize_text")]
    /\ \E reply \in Replies : summary' = [summary EXCEPT ![r] = DirectReturn(reply)]
    /\ run_pc' = [run_pc EXCEPT ![r] = "export"]
    /\ UNCHANGED <<video_url, video_id, provided, fetched, transcript, metadata, temp_dirs,
                   file_writers, file_content, offered, sumVars, pdfVars>>

\* save_pdf(metadata['title'], summary, f"{video_id}_summary.pdf"): c.save()
\* writes the file.
ExportPdf(r) ==
    /\ run_pc[r] = "export"
    /\ invoked' = [invoked EXCEPT ![r] = Append(@, "save_pdf")]
    /\ file_writers' = Written(file_writers, PdfPath(video_id[r]), r)
    /\ file_content' = Holding(file_content, PdfPath(video_id[r]),
                               <<"pdf", metadata[r].title, summary[r]>>)
    /\ run_pc' = [run_pc EXCEPT ![r] = "offer"]
    /\ UNCHANGED <<video_url, video_id, provided, fetched, transcript, metadata, summary,
                   temp_dirs, offered, sumVars, pdfVars>>

\* open(pdf_path, "rb") and the download button, which reads the file.
OfferDownload(r) ==
    /\ run_pc[r] = "offer"
    /\ offered' = [offered EXCEPT ![r] = file_content[PdfPath(video_id[r])]]
    /\ run_pc' = [run_pc EXCEPT ![r] = "done"]
    /\ UNCHANGED <<video_url, video_id, provided, fetched, transcript, metadata, summary,
                   invoked, temp_dirs, file_writers, file_content, sumVars, pdfVars>>

PipeNext ==
    \E r \in Runs :
        \/ SubmitUrl(r)
        \/ ResolveTranscript(r)
        \/ DownloadAudio(r)
        \/ Transcribe(r)
        \/ SummarizeTranscript(r)
        \/ ExportPdf(r)
        \/ OfferDownload(r)

PipeSpec == PipeInit /\ [][PipeNext]_vars

\* ================================================================== claims
\* C3 (as claimed): for a text longer than chunkWidth the wrap never splits
\* a word (a maximal run of non-whitespace characters, hyphens included)
\* across two chunks: the chunks joined with single spaces have the words of
\* the original text.
C3_WordsNeverSplit ==
    pc = "wrapped" => Words(JoinWith(chunks, " ")) = Words(text)

\* C4 (as claimed): every chunk is at most chunkWidth long, whatever the
\* lengths of the words.
C4_EveryChunkBounded ==
    pc = "wrapped" => \A i \in 1..Len(chunks) : Len(chunks[i]) <= chunk_size

\* C4 (amended): every chunk is at most chunkWidth long, except a chunk that
\* is one unbreakable piece of the text (no whitespace in it, one piece of the
\* wrap's word splitting) longer than chunkWidth, which stands alone.
C4_ChunkBoundedOrOneLongPiece ==
    pc = "wrapped" =>
        \A i \in 1..Len(chunks) :
            \/ Len(chunks[i]) <= chunk_size
            \/ /\ \A j \in 1..Len(chunks[i]) : chunks[i][j] \notin Whitespace
               /\ \E k \in 1..Len(Split(MungeWhitespace(text))) :
                      Split(MungeWhitespace(text))[k] = chunks[i]

\* C4's case: a wrap, at a width of two or more, that gave one chunk longer
\* than chunkWidth and one chunk that fills the width exactly.
C4_Witness ==
    /\ pc = "wrapped"
    /\ chunk_size >= 2
    /\ \E i \in 1..Len(chunks) : Len(chunks[i]) > chunk_size
    /\ \E i \in 1..Len(chunks) : Len(chunks[i]) = chunk_size

\* C1: a text no longer than chunkWidth (the empty text too) gets exactly one
\* generation request, the direct one with the text in it, never a per-chunk
\* or a combination request, and the call's text comes back stripped under
\* the report header.
C1_DirectModeOneCall ==
    Len(text) <= chunk_size =>
        /\ chunks = <<>> /\ chunk_summaries = <<>>
        /\ Len(requests) <= 1
        /\ \A i \in 1..Len(requests) : requests[i] = [template |-> "direct", content |-> text]
        /\ pc = "returned" =>
              /\ Len(requests) = 1
              /\ replies[1].ok =>
                     /\ result[1] = "### Video Summary Report\n\n"
                     /\ Tail(result) = Strip(replies[1].text)

\* C1's case: a returned direct-mode run on a text exactly chunkWidth long
\* whose call succeeded.
C1_Witness ==
    /\ pc = "returned"
    /\ Len(text) = chunk_size
    /\ chunk_size > 0
    /\ replies[1].ok

\* What C2 expects of chunk i in the combination input.
C2_Contribution(i) ==
    IF replies[i].ok THEN Strip(replies[i].text) ELSE <<"Error summarizing this chunk.">>

\* C2: in chunked mode, whichever per-chunk calls fail, every chunk adds one
\* entry, the run goes on to the combination request, and that request's
\* input is, chunk by chunk in the original order and newline-separated, the
\* placeholder for a failed chunk and the stripped summary for the others.
C2_FailedChunksBecomePlaceholders ==
    (chunk_size > 0 /\ Len(text) > chunk_size) =>
        /\ pc = "chunks" =>
              /\ Len(chunk_summaries) = Len(replies)
              /\ \A i \in 1..Len(replies) : chunk_summaries[i] = C2_Contribution(i)
              /\ ENABLED (SummarizeChunk \/ CombineSummaries)
        /\ pc = "returned" =>
              /\ Len(requests) = Len(chunks) + 1
              /\ requests[Len(requests)].template = "combine"
              /\ requests[Len(requests)].content =
                     JoinWith([i \in 1..Len(chunks) |-> C2_Contribution(i)], "\n")

\* C2's case: a returned run of three chunks or more whose second chunk call
\* failed and whose first and third succeeded.
C2_Witness ==
    /\ pc = "returned"
    /\ Len(chunks) >= 3
    /\ replies[1].ok
    /\ ~replies[2].ok
    /\ replies[3].ok

\* C7: for a positive chunkWidth summarize_text never raises, whichever calls
\* fail: it is called, in its chunk loop or returned, and what it returns is
\* a text;
\* when the direct call or the combination call failed, the text is the error
\* message for that call.
C7_AlwaysReturnsText ==
    chunk_size > 0 =>
        /\ pc # "raised"
        /\ pc \in {"call", "chunks", "returned"}
        /\ pc = "returned" =>
              /\ result # NoResult
              /\ (Len(text) <= chunk_size /\ ~replies[1].ok) =>
                     result = <<"Error generating summary: ">> \o replies[1].text
              /\ (Len(text) > chunk_size /\ ~replies[Len(replies)].ok) =>
                     result = <<"Error combining summaries: ">> \o replies[Len(replies)].text

\* C7's case: a returned chunked run in which a chunk call and the
\* combination call both failed.
C7_Witness ==
    /\ pc = "returned"
    /\ Len(chunks) >= 1
    /\ ~replies[1].ok
    /\ ~replies[Len(replies)].ok

\* The requests of a chunked run: the first ones are the chunks' bullet
\* requests in chunk order, and a returned run has one more, the combination.
C9_RequestsInOrder ==
    /\ Len(requests) <= Len(chunks) + 1
    /\ \A i \in 1..Len(requests) :
           i <= Len(chunks) => requests[i] = [template |-> "chunk", content |-> chunks[i]]
    /\ pc = "chunks" => Len(requests) <= Len(chunks)
    /\ pc = "returned" =>
           /\ Len(requests) = Len(chunks) + 1
           /\ requests[Len(requests)].template = "combine"

\* C9 (as claimed): a text longer than chunkWidth wraps into n >= 1 chunks,
\* and the run issues n + 1 requests: the chunks' in order, then the
\* combination, last.
C9_AtLeastOneChunk ==
    (chunk_size > 0 /\ Len(text) > chunk_size /\ pc \in {"chunks", "returned"}) =>
        Len(chunks) >= 1 /\ C9_RequestsInOrder

\* C9 (amended): a text longer than chunkWidth wraps into n >= 0 chunks, n = 0
\* exactly when the text holds whitespace only, and the run issues n + 1
\* requests: the chunks' in order, then the combination, last.
C9_ChunkRequestsThenCombine ==
    (chunk_size > 0 /\ Len(text) > chunk_size /\ pc \in {"chunks", "returned"}) =>
        /\ Len(chunks) = 0 <=> IsBlank(text)
        /\ C9_RequestsInOrder

\* C9's case: a returned run of two chunks or more.
C9_Witness ==
    /\ pc = "returned"
    /\ Len(chunks) >= 2
    /\ Len(requests) = Len(chunks) + 1

\* The body lines drawn: every drawString but the title's.
BodyDrawn == Tail(drawn)

\* The texts of a sequence of texts, end to end.
RECURSIVE Flatten(_)
Flatten(ss) == IF ss = <<>> THEN <<>> ELSE Head(ss) \o Flatten(Tail(ss))

NonSpace(t) == SelectSeq(t, LAMBDA c : c \notin Whitespace)

\* C6: save_pdf drops no content: each line of the report (blank ones too)
\* is wrapped on its own to width 100, and the wrapped lines are drawn once
\* each in the original order, so that the drawn lines are the lines' wraps
\* end to end, none longer than 100, and their non-whitespace characters are
\* the report's, in order, however many lines and pages there are.
C6_NoContentDropped ==
    pdf_pc = "saved" =>
        /\ [i \in 1..Len(BodyDrawn) |-> BodyDrawn[i].text] =
               Flatten([k \in 1..Len(lines) |-> Wrap(lines[k], 100, TRUE)])
        /\ \A i \in 1..Len(BodyDrawn) : Len(BodyDrawn[i].text) \in 1..100
        /\ NonSpace(Flatten([i \in 1..Len(BodyDrawn) |-> BodyDrawn[i].text])) =
               NonSpace(summary_text)
        /\ Len(lines) = 1 + Len(SelectSeq(summary_text, LAMBDA c : c = "\n"))

\* C6's case: a saved report of more than one page that holds a blank line
\* and a line longer than 100 characters.
C6_Witness ==
    /\ pdf_pc = "saved"
    /\ page >= 2
    /\ \E k \in 1..Len(lines) : lines[k] = <<>>
    /\ \E k \in 1..Len(lines) : Len(lines[k]) > 100

\* The number of body lines page one holds: from 70 below the top down to
\* the bottom margin in steps of 15.
FirstPageLines == ((792 - 70) - 50) \div 15 + 1

\* C10: every body line is drawn with the cursor between the bottom margin
\* (50) and the top margin (page height - 50); from one drawn line to the
\* next the cursor goes down by 15 on the same page, or, exactly when that
\* would put it below the bottom margin, to the top margin of a new page;
\* and more body lines than page one holds give more than one page.
C10_CursorWithinMargins ==
    /\ pdf_pc \in {"lines", "saved"} =>
          /\ y \in 50..(792 - 50)
          /\ drawn # <<>> /\ drawn[1].page = 1
    /\ Len(drawn) >= 2 =>
          /\ drawn[Len(drawn)].y \in 50..(792 - 50)
          /\ Len(drawn) = 2 => drawn[2].y = 792 - 70 /\ drawn[2].page = 1
    /\ Len(drawn) >= 3 =>
          LET last == drawn[Len(drawn)]
              before == drawn[Len(drawn) - 1]
          IN IF before.y - 15 < 50
             THEN last.page = before.page + 1 /\ last.y = 792 - 50
             ELSE last.page = before.page /\ last.y = before.y - 15
    /\ (pdf_pc = "saved" /\ Len(BodyDrawn) > FirstPageLines) =>
          drawn[Len(drawn)].page > 1

\* C10's case: a saved report whose last line is on page three.
C10_Witness ==
    /\ pdf_pc = "saved"
    /\ drawn[Len(drawn)].page = 3

\* Whether run r has called the helper function f.
Called(r, f) == \E i \in 1..Len(invoked[r]) : invoked[r][i] = f

\* C5 (as claimed): get_transcript never raises: for transcripts disabled,
\* none found and any other failure of the provider it returns None
\* (Unavailable), and for caption entries their text; and a run calls
\* download_audio_and_metadata, and transcribe_audio right after it, when
\* get_transcript returned None, and calls neither when it returned a
\* transcript.
C5_FallbackIffUnavailable ==
    \A r \in Runs :
        Called(r, "get_transcript") =>
            /\ run_pc[r] # "resolve"
            /\ provided[r].kind # "entries" => fetched[r] = None
            /\ provided[r].kind = "entries" => fetched[r] # None
            /\ fetched[r] = None => run_pc[r] = "download" \/ Called(r, "download_audio_and_metadata")
            /\ fetched[r] # None =>
                   /\ run_pc[r] # "download"
                   /\ ~Called(r, "download_audio_and_metadata")
                   /\ ~Called(r, "transcribe_audio")
            /\ \A i \in 1..Len(invoked[r]) :
                   invoked[r][i] = "transcribe_audio" =>
                       i > 1 /\ invoked[r][i - 1] = "download_audio_and_metadata"

\* C8 (as claimed): with two runs on one host, for the same video or for
\* different ones, no temporary path (the audio download's or the exported
\* document's) is written by both runs.
C8_NoPathWrittenByBothRuns ==
    \A path \in DOMAIN file_writers : Cardinality(file_writers[path]) <= 1

=============================================================================
